---- MODULE Spec2Model ----
(***************************************************************************)
(* The authentication and session-lifecycle core of Subscription_Tracker:  *)
(* the express routes of backend/src/routes/auth.js behind the             *)
(* express-rate-limit middlewares of backend/src/middleware/rateLimiter.js *)
(* over the users table of backend/prisma/schema.prisma.                   *)
(*                                                                         *)
(* Every request is a small process.  Node runs one request at a time      *)
(* between two awaits, so a request advances in atomic steps that end      *)
(* where the handler awaits the record store or the hasher; steps of       *)
(* different requests interleave freely.                                   *)
(*                                                                         *)
(* Time is counted in ticks of Date.now().  The windows of the limiters    *)
(* and the lifetimes of the tokens are scaled down to a few ticks.         *)
(*                                                                         *)
(* The browser side is frontend/src/store/authStore.ts over                *)
(* frontend/src/lib/api.ts: the zustand store, the two entries of          *)
(* localStorage and the calls in flight, each advancing in atomic steps    *)
(* that end where it awaits fetch.  What the network answers to a call of  *)
(* the browser is an input of that step.                                   *)
(***************************************************************************)
EXTENDS Integers, FiniteSets, Sequences, TLC

VARIABLES
    now,        \* the clock read by Date.now()
    users,      \* the users table: a row, Unused or Deleted per user id
    hits,       \* authLimiter store: totalHits per key
    resetAt,    \* authLimiter store: resetTime per key
    regHits,    \* registrationLimiter store: totalHits per key
    regResetAt, \* registrationLimiter store: resetTime per key
    issued,     \* the token pairs handed out so far: "fresh" or "used", by subject and iat
    procs,      \* the requests in flight, each at its await
    res,        \* the response the latest step sent, if it sent one
    reached,    \* history: requests that passed authLimiter, per key in this window
    apiHits,    \* apiLimiter store: totalHits per key
    localStorage, \* browser: the entries authToken and refreshToken
    authState,  \* browser: the state of useAuthStore
    inits,      \* browser: the calls of initialize in flight, each at its await
    call,       \* browser: another call of the store in flight, at its await
    ev          \* browser: what the latest step of a call did

server ==
    <<now, users, hits, resetAt, regHits, regResetAt, issued, procs, res, reached, apiHits>>

client == <<localStorage, authState, inits, call, ev>>

vars == <<now, users, hits, resetAt, regHits, regResetAt, issued, procs, res, reached,
          apiHits, localStorage, authState, inits, call, ev>>

authStore == <<hits, resetAt, reached>>

regStore == <<regHits, regResetAt>>

-----------------------------------------------------------------------------
(* Bounds of the model *)

MaxTime == 2

MaxOver == 1

MaxApi == 3

(* Program constants; the windows and lifetimes in ticks *)

AuthMax == 5

AuthWindow == 2

RegMax == 3

RegWindow == 8

ApiMax == 100

AccessTtl == 1

RefreshTtl == 2

Keys == {"ip1"}

Procs == {"p1", "p2"}

UserIds == {"u1", "u2"}

Times == 0..MaxTime

-----------------------------------------------------------------------------
(* lib/password: the policy and the hasher *)

(* What the policy's rules read of a candidate. *)
Shape(pw) ==
    CASE pw = "Str0ng!Pass"  -> [long |-> TRUE,  upper |-> TRUE,  lower |-> TRUE, digit |-> TRUE,  symbol |-> TRUE,  folded |-> "str0ng!pass"]
      [] pw = "N3w!Passw0rd" -> [long |-> TRUE,  upper |-> TRUE,  lower |-> TRUE, digit |-> TRUE,  symbol |-> TRUE,  folded |-> "n3w!passw0rd"]
      [] pw = "Wr0ng!Pass"   -> [long |-> TRUE,  upper |-> TRUE,  lower |-> TRUE, digit |-> TRUE,  symbol |-> TRUE,  folded |-> "wr0ng!pass"]
      [] pw = "password123"  -> [long |-> TRUE,  upper |-> FALSE, lower |-> TRUE, digit |-> TRUE,  symbol |-> FALSE, folded |-> "password123"]
      [] pw = "Password123!" -> [long |-> TRUE,  upper |-> TRUE,  lower |-> TRUE, digit |-> TRUE,  symbol |-> TRUE,  folded |-> "password123!"]
      [] pw = "pASSWORD123!" -> [long |-> TRUE,  upper |-> TRUE,  lower |-> TRUE, digit |-> TRUE,  symbol |-> TRUE,  folded |-> "password123!"]
      [] pw = "PASSWORD123"  -> [long |-> TRUE,  upper |-> TRUE,  lower |-> FALSE, digit |-> TRUE,  symbol |-> FALSE, folded |-> "password123"]
      [] pw = "weak"         -> [long |-> FALSE, upper |-> FALSE, lower |-> TRUE, digit |-> FALSE, symbol |-> FALSE, folded |-> "weak"]
      [] OTHER               -> [long |-> FALSE, upper |-> FALSE, lower |-> FALSE, digit |-> FALSE, symbol |-> FALSE, folded |-> pw]

Denylist == {"password", "123456", "password123", "admin", "qwerty"}

validatePassword(pw) ==
    LET s == Shape(pw)
        errors == (IF s.long THEN {} ELSE {"length"})
                    \cup (IF s.upper THEN {} ELSE {"uppercase"})
                    \cup (IF s.lower THEN {} ELSE {"lowercase"})
                    \cup (IF s.digit THEN {} ELSE {"digit"})
                    \cup (IF s.symbol THEN {} ELSE {"symbol"})
                    \cup (IF s.folded \in Denylist THEN {"common"} ELSE {})
    IN  [isValid |-> errors = {}, errors |-> errors]

bcrypt(pw, salt) == [pw |-> pw, salt |-> salt]

comparePassword(pw, hash) == hash.pw = pw

-----------------------------------------------------------------------------
(* The users table *)

Unused == [unused |-> TRUE]

Deleted == [deleted |-> TRUE]

NoRow == [none |-> TRUE]

IsRow(x) == x \notin {Unused, Deleted, NoRow}

Row(id, email, name, hash) ==
    [id |-> id, email |-> email, name |-> name, password |-> hash]

StoredHashes == {users[id].password : id \in {i \in UserIds : IsRow(users[i])}}

(* A new hash carries a salt no stored hash of the same password carries. *)
hashPassword(pw) ==
    bcrypt(pw, CHOOSE s \in 0..Cardinality(UserIds) :
                  /\ bcrypt(pw, s) \notin StoredHashes
                  /\ \A t \in 0..(s - 1) : bcrypt(pw, t) \in StoredHashes)

findUniqueById(id) ==
    IF id \in UserIds /\ IsRow(users[id]) THEN users[id] ELSE NoRow

findUniqueByEmail(email) ==
    IF \E id \in UserIds : IsRow(users[id]) /\ users[id].email = email
    THEN users[CHOOSE id \in UserIds : IsRow(users[id]) /\ users[id].email = email]
    ELSE NoRow

Select(row, fields) == [f \in fields |-> row[f]]

PublicFields == {"id", "email", "name"}

-----------------------------------------------------------------------------
(* validateInput *)

RawEmails == {"a@x.io", " A@X.IO", "b@x.io", "nope", ""}

trimToLowerCase(e) ==
    IF e = " A@X.IO" THEN "a@x.io" ELSE IF e = " B@X.IO" THEN "b@x.io" ELSE e

isValidEmail(e) == e \in {"a@x.io", "b@x.io"}

validateInput(email, password) ==
    LET missing == {f \in {"email", "password"} :
                       (f = "email" /\ email = "") \/ (f = "password" /\ password = "")}
        clean   == IF email # "" THEN trimToLowerCase(email) ELSE email
        bad     == email # "" /\ ~isValidEmail(clean)
    IN  [isValid  |-> missing = {} /\ ~bad,
         errors   |-> missing \cup (IF bad THEN {"format"} ELSE {}),
         email    |-> clean,
         password |-> password]

-----------------------------------------------------------------------------
(* lib/jwt: the token codec *)

TokenTypes == {"access", "refresh"}

Ttl(typ) == IF typ = "access" THEN AccessTtl ELSE RefreshTtl

Token(sub, typ, iat) ==
    [form |-> "jwt", sig |-> "ok", sub |-> sub, typ |-> typ, iat |-> iat,
     exp |-> iat + Ttl(typ)]

NoToken == [form |-> "empty", sig |-> "none", sub |-> "none", typ |-> "none",
            iat |-> 0, exp |-> 0]

Garbage == [NoToken EXCEPT !.form = "garbage"]

Forged == [Token("u1", "refresh", 0) EXCEPT !.sig = "bad", !.exp = MaxTime + 9]

NoPair == [none |-> TRUE]

generateTokenPairFrozen(userId, t) ==
    [accessToken  |-> Token(userId, "access", 0),
     refreshToken |-> Token(userId, "refresh", 0),
     expiresIn    |-> AccessTtl]

generateTokenPair(userId, t) ==
    [accessToken  |-> Token(userId, "access", t),
     refreshToken |-> Token(userId, "refresh", t),
     expiresIn    |-> AccessTtl]

verifyTokenForever(tok, t) ==
    IF tok.form # "jwt" \/ tok.sig # "ok"
    THEN [ok |-> FALSE, message |-> "Invalid token"]
    ELSE [ok |-> TRUE, message |-> ""]

verifyToken(tok, t) ==
    IF tok.form # "jwt" \/ tok.sig # "ok"
    THEN [ok |-> FALSE, message |-> "Invalid token"]
    ELSE IF t >= tok.exp
    THEN [ok |-> FALSE, message |-> "Token has expired"]
    ELSE [ok |-> TRUE, message |-> ""]

IssuedTokens ==
    {Token(u, typ, t) : u \in UserIds, typ \in TokenTypes, t \in Times} \ 
        {tok \in {Token(u, typ, t) : u \in UserIds, typ \in TokenTypes, t \in Times} :
            issued[tok.sub][tok.iat] = "no"}

Handed(userId) ==
    [issued EXCEPT ![userId][now] = IF @ = "no" THEN "fresh" ELSE @]

Presentable == IssuedTokens \cup {NoToken, Garbage, Forged}

Genuine(tok) == tok.form = "jwt" /\ tok.sig = "ok"

Replayed(tok) == Genuine(tok) /\ tok.typ = "refresh" /\ issued[tok.sub][tok.iat] = "used"

-----------------------------------------------------------------------------
(* express-rate-limit: the fixed-window store behind authLimiter *)

WindowOver(k) == resetAt[k] <= now

TotalHitsSticky(k) == hits[k] + 1

TotalHits(k) == (IF WindowOver(k) THEN 0 ELSE hits[k]) + 1

authLimiterOffByOne(totalHits) == IF totalHits > AuthMax + 1 THEN "reject" ELSE "next"

authLimiterDetached(totalHits) == "next"

authLimiter(totalHits) == IF totalHits > AuthMax THEN "reject" ELSE "next"

Increment(k) ==
    /\ hits' = [hits EXCEPT ![k] = TotalHits(k)]
    /\ resetAt' = [resetAt EXCEPT ![k] = IF WindowOver(k) THEN now + AuthWindow ELSE @]

MayArrive(k) == TotalHits(k) <= AuthMax + MaxOver

ReachedAfter(k, entered) ==
    [reached EXCEPT ![k] = (IF WindowOver(k) THEN 0 ELSE @) + (IF entered THEN 1 ELSE 0)]

-----------------------------------------------------------------------------
(* Requests and responses *)

Idle == [pc |-> "idle", kind |-> "none", admitted |-> TRUE, email |-> "",
         password |-> "", name |-> "", newPassword |-> "",
         token |-> NoToken, row |-> NoRow, peer |-> NoPair]

(* A response: what the client receives (status, error, message, details,  *)
(* user, pair) and, for the properties, what its request met on the way.   *)
Sent(kind) ==
    [kind |-> kind, status |-> 0, error |-> "", message |-> "", details |-> {},
     user |-> NoRow, pair |-> NoPair,
     admitted |-> TRUE, good |-> FALSE, creds |-> "none",
     tok |-> "none", expired |-> FALSE, replay |-> FALSE, subject |-> "none",
     lookups |-> 0, compares |-> 0, peer |-> NoPair,
     current |-> "none", same |-> FALSE, weak |-> FALSE,
     oldOk |-> FALSE, newOk |-> FALSE, taken |-> FALSE,
     countedAs |-> "none", logged |-> {}]

Quiet == Sent("none")

Reply(r, status, error, message) ==
    [r EXCEPT !.status = status, !.error = error, !.message = message]

Visible(r) ==
    [status |-> r.status, error |-> r.error, message |-> r.message,
     details |-> r.details, user |-> r.user, pair |-> r.pair]

TokClass(tok) ==
    IF tok.form # "jwt" THEN tok.form
    ELSE IF tok.sig # "ok" THEN "forged"
    ELSE tok.typ

Arrived(r, k) == [r EXCEPT !.admitted = TotalHits(k) <= AuthMax]

Carried(r, p) == [r EXCEPT !.admitted = procs[p].admitted]

TooMany(r) ==
    Reply(r, 429, "", "Too many authentication attempts, please try again later.")

(* lib/logger: an entry is the set of the places its values were read from. *)
trackAuthEvent(r, userId, details) == [r EXCEPT !.logged = @ \cup {userId} \cup details]

trackError(r, context) == [r EXCEPT !.logged = @ \cup {"error.message", "error.stack"} \cup context]

(* The fields of the JSON body of each kind of request. *)
Body(kind) ==
    CASE kind = "login"    -> {"body.email", "body.password"}
      [] kind = "register" -> {"body.email", "body.password", "body.name"}
      [] kind = "refresh"  -> {"body.refreshToken"}
      [] kind = "changepw" -> {"body.currentPassword", "body.newPassword"}
      [] OTHER             -> {}

(* middleware/logging: express hands an error of a request to errorLogger. *)
errorLogger(kind) ==
    /\ res' = trackError(Sent(kind),
                         {"req.method", "req.path", "req.user.id", "req.query",
                          "headers.user-agent", "headers.content-type"} \cup Body(kind))
    /\ UNCHANGED <<now, users, authStore, regStore, issued, procs>>
    /\ UNCHANGED <<apiHits, client>>

(* A new request takes the first free slot: the slots are interchangeable. *)
FreeSlot ==
    IF procs["p1"].pc = "idle" THEN "p1"
    ELSE IF procs["p2"].pc = "idle" THEN "p2" ELSE "none"

Finish(p) == procs' = [procs EXCEPT ![p] = Idle]

Await(p, slot) == procs' = [procs EXCEPT ![p] = slot]

-----------------------------------------------------------------------------
(* POST /login *)

LoginInvalid(r, v) ==
    [Reply(r, 400, "Validation failed", "Please provide valid email and password")
        EXCEPT !.details = v.errors]

NoSuchUserTelling(r) ==
    [Reply(r, 404, "User not found", "No account with this email address")
        EXCEPT !.creds = "nouser"]

NoSuchUser(r) ==
    [Reply(r, 401, "Invalid credentials", "Email or password is incorrect")
        EXCEPT !.creds = "nouser"]

WrongPassword(r) ==
    [Reply(r, 401, "Invalid credentials", "Email or password is incorrect")
        EXCEPT !.creds = "wrongpw"]

userWithPassword(row) == row

userWithoutPassword(row) == [f \in DOMAIN row \ {"password"} |-> row[f]]

LoginOk(r, row, tokens) ==
    [Reply(r, 200, "", "Login successful")
        EXCEPT !.user = userWithoutPassword(row), !.pair = tokens, !.creds = "ok"]

GoodCredentials(v) ==
    /\ v.isValid
    /\ findUniqueByEmail(v.email) # NoRow
    /\ comparePassword(v.password, findUniqueByEmail(v.email).password)

LoginArrive(p, k, e, pw) ==
    /\ p \in Procs /\ procs[p].pc = "idle"
    /\ MayArrive(k)
    /\ Increment(k)
    /\ LET v == validateInput(e, pw)
           r == [Arrived(Sent("login"), k) EXCEPT !.good = GoodCredentials(v)]
       IN  IF authLimiter(TotalHits(k)) = "reject"
           THEN /\ res' = TooMany(r)
                /\ reached' = ReachedAfter(k, FALSE)
                /\ UNCHANGED procs
           ELSE /\ reached' = ReachedAfter(k, TRUE)
                /\ IF ~v.isValid
                   THEN res' = LoginInvalid(r, v) /\ UNCHANGED procs
                   ELSE /\ Await(p, [Idle EXCEPT !.pc = "find", !.kind = "login",
                                        !.admitted = r.admitted,
                                        !.email = v.email, !.password = v.password])
                        /\ res' = Quiet
    /\ UNCHANGED <<now, users, regStore, issued>>
    /\ UNCHANGED <<apiHits, client>>

LoginFind(p) ==
    /\ procs[p].pc = "find" /\ procs[p].kind = "login"
    /\ LET row == findUniqueByEmail(procs[p].email)
           r   == [Carried(Sent("login"), p) EXCEPT !.lookups = 1]
       IN  IF row = NoRow
           THEN res' = trackAuthEvent(NoSuchUser(r), "sanitizedData.email", {"reason"})
                /\ Finish(p)
           ELSE Await(p, [procs[p] EXCEPT !.pc = "compare", !.row = row])
                /\ res' = Quiet
    /\ UNCHANGED <<now, users, authStore, regStore, issued>>
    /\ UNCHANGED <<apiHits, client>>

LoginCompare(p) ==
    /\ procs[p].pc = "compare" /\ procs[p].kind = "login"
    /\ LET row == procs[p].row
           r   == [Carried(Sent("login"), p) EXCEPT !.lookups = 1, !.compares = 1]
       IN  IF ~comparePassword(procs[p].password, row.password)
           THEN /\ res' = trackAuthEvent(WrongPassword(r), "user.id", {"user.email", "reason"})
                /\ UNCHANGED issued
           ELSE /\ res' = trackAuthEvent(LoginOk(r, row, generateTokenPair(row.id, now)),
                                         "user.id", {"user.email"})
                /\ issued' = Handed(row.id)
    /\ Finish(p)
    /\ UNCHANGED <<now, users, authStore, regStore>>
    /\ UNCHANGED <<apiHits, client>>

-----------------------------------------------------------------------------
(* POST /refresh *)

RefreshMissing(r) == Reply(r, 400, "Validation failed", "Refresh token is required")

RefreshCatchUnsorted(r, message) ==
    IF message = "Token has expired"
    THEN Reply(r, 401, "Token expired", "Refresh token has expired, please login again")
    ELSE Reply(r, 500, "Internal server error", "Unable to refresh tokens at this time")

RefreshCatch(r, message) ==
    IF message = "Token has expired"
    THEN Reply(r, 401, "Token expired", "Refresh token has expired, please login again")
    ELSE IF message = "Invalid token"
    THEN Reply(r, 401, "Invalid token", "Invalid refresh token")
    ELSE Reply(r, 500, "Internal server error", "Unable to refresh tokens at this time")

RefreshWrongType(r) == Reply(r, 401, "Invalid token", "Invalid refresh token")

RefreshNoUser(r) == Reply(r, 401, "User not found", "User account no longer exists")

RefreshOk(r, user, tokens) ==
    [Reply(r, 200, "", "Tokens refreshed successfully")
        EXCEPT !.user = user, !.pair = tokens]

isRefreshAny(decoded) == TRUE

isRefresh(decoded) == decoded.typ = "refresh"

RefreshLookupTrusting(decoded) ==
    Row(decoded.sub, "a@x.io", "Ann", bcrypt("Str0ng!Pass", 0))

RefreshLookupOnce(decoded) ==
    IF Replayed(decoded) THEN NoRow ELSE findUniqueById(decoded.sub)

RefreshLookup(decoded) == findUniqueById(decoded.sub)

Subject(tok) ==
    IF ~Genuine(tok) THEN "none"
    ELSE IF IsRow(users[tok.sub]) THEN "present" ELSE "gone"

Met(r, tok) ==
    [r EXCEPT !.tok = TokClass(tok), !.expired = Genuine(tok) /\ now >= tok.exp,
              !.replay = Replayed(tok), !.subject = Subject(tok)]

RefreshArriveOwnCounter(p, k, tok) ==
    /\ p \in Procs /\ procs[p].pc = "idle"
    /\ MayArrive(k)
    /\ UNCHANGED <<hits, resetAt>>
    /\ reached' = ReachedAfter(k, authLimiter(TotalHits(k)) = "next")
    /\ LET r == Met(Arrived(Sent("refresh"), k), tok)
           v == verifyToken(tok, now)
       IN  IF authLimiter(TotalHits(k)) = "reject"
           THEN res' = TooMany(r) /\ UNCHANGED procs
           ELSE IF tok = NoToken
           THEN res' = RefreshMissing(r) /\ UNCHANGED procs
           ELSE IF ~v.ok
           THEN res' = RefreshCatch(r, v.message) /\ UNCHANGED procs
           ELSE IF ~isRefresh(tok)
           THEN res' = RefreshWrongType(r) /\ UNCHANGED procs
           ELSE /\ Await(p, [Idle EXCEPT !.pc = "find", !.kind = "refresh",
                                !.admitted = r.admitted, !.token = tok])
                /\ res' = Quiet
    /\ UNCHANGED <<now, users, regStore, issued>>
    /\ UNCHANGED <<apiHits, client>>

RefreshArrive(p, k, tok) ==
    /\ p \in Procs /\ procs[p].pc = "idle"
    /\ MayArrive(k)
    /\ Increment(k)
    /\ reached' = ReachedAfter(k, authLimiter(TotalHits(k)) = "next")
    /\ LET r == Met(Arrived(Sent("refresh"), k), tok)
           v == verifyToken(tok, now)
       IN  IF authLimiter(TotalHits(k)) = "reject"
           THEN res' = TooMany(r) /\ UNCHANGED procs
           ELSE IF tok = NoToken
           THEN res' = RefreshMissing(r) /\ UNCHANGED procs
           ELSE IF ~v.ok
           THEN res' = RefreshCatch(r, v.message) /\ UNCHANGED procs
           ELSE IF ~isRefresh(tok)
           THEN res' = RefreshWrongType(r) /\ UNCHANGED procs
           ELSE /\ Await(p, [Idle EXCEPT !.pc = "find", !.kind = "refresh",
                                !.admitted = r.admitted, !.token = tok])
                /\ res' = Quiet
    /\ UNCHANGED <<now, users, regStore, issued>>
    /\ UNCHANGED <<apiHits, client>>

RefreshFind(p) ==
    /\ procs[p].pc = "find" /\ procs[p].kind = "refresh"
    /\ LET tok  == procs[p].token
           row  == RefreshLookup(tok)
           r    == [Carried(Sent("refresh"), p)
                       EXCEPT !.tok = TokClass(tok), !.replay = Replayed(tok),
                              !.subject = Subject(tok),
                              !.lookups = 1, !.peer = procs[p].peer]
           pair == generateTokenPair(row.id, now)
       IN  IF row = NoRow
           THEN /\ res' = RefreshNoUser(r)
                /\ Finish(p)
                /\ UNCHANGED issued
           ELSE /\ res' = RefreshOk(r, Select(row, PublicFields), pair)
                /\ issued' = [Handed(row.id) EXCEPT ![tok.sub][tok.iat] = "used"]
                /\ procs' = [q \in Procs |->
                               IF q = p THEN Idle
                               ELSE IF procs[q].pc = "find" /\ procs[q].kind = "refresh"
                                       /\ procs[q].token = tok
                               THEN [procs[q] EXCEPT !.peer = pair]
                               ELSE procs[q]]
    /\ UNCHANGED <<now, users, authStore, regStore>>
    /\ UNCHANGED <<apiHits, client>>

-----------------------------------------------------------------------------
(* middleware/auth and GET /me *)

Unauthorized(r) == Reply(r, 401, "Unauthorized", "")

auth(tok, t) == verifyToken(tok, t).ok /\ tok.typ = "access"

MeNoUser(r) == Reply(r, 404, "User not found", "User account no longer exists")

MeOk(r, user) ==
    [Reply(r, 200, "", "User profile retrieved successfully") EXCEPT !.user = user]

MeArrive(p, tok) ==
    /\ p \in Procs /\ procs[p].pc = "idle"
    /\ IF ~auth(tok, now)
       THEN res' = Unauthorized(Met(Sent("me"), tok)) /\ UNCHANGED procs
       ELSE /\ Await(p, [Idle EXCEPT !.pc = "find", !.kind = "me", !.token = tok])
            /\ res' = Quiet
    /\ UNCHANGED <<now, users, authStore, regStore, issued>>
    /\ UNCHANGED <<apiHits, client>>

MeFind(p) ==
    /\ procs[p].pc = "find" /\ procs[p].kind = "me"
    /\ LET row == findUniqueById(procs[p].token.sub)
           r   == [Sent("me") EXCEPT !.tok = TokClass(procs[p].token), !.lookups = 1]
       IN  res' = IF row = NoRow THEN MeNoUser(r) ELSE MeOk(r, Select(row, PublicFields))
    /\ Finish(p)
    /\ UNCHANGED <<now, users, authStore, regStore, issued>>
    /\ UNCHANGED <<apiHits, client>>

-----------------------------------------------------------------------------
(* express-rate-limit: apiLimiter, for the general endpoints *)

skip(req) == req.user = "none"

keyGenerator(req) == IF req.user # "none" THEN req.user ELSE req.ip

(* A request passes apiLimiter: it is counted under its key unless skipped. *)
ApiArrive(user, ip) ==
    /\ \A k \in UserIds \cup Keys : apiHits[k] < MaxApi
    /\ LET req == [user |-> user, ip |-> ip]
           key == keyGenerator(req)
           r   == [Sent("api") EXCEPT !.subject = user]
       IN  IF skip(req)
           THEN /\ res' = r
                /\ UNCHANGED apiHits
           ELSE /\ apiHits' = [apiHits EXCEPT ![key] = @ + 1]
                /\ res' = [(IF apiHits[key] + 1 > ApiMax
                              THEN Reply(r, 429, "", "Too many requests, please try again later.")
                              ELSE r)
                              EXCEPT !.countedAs = key]
    /\ UNCHANGED <<now, users, authStore, regStore, issued, procs>>
    /\ UNCHANGED client

-----------------------------------------------------------------------------
(* express-rate-limit: the fixed-window store behind registrationLimiter *)

RegWindowOver(k) == regResetAt[k] <= now

RegTotalHits(k) == (IF RegWindowOver(k) THEN 0 ELSE regHits[k]) + 1

registrationLimiter(totalHits) == IF totalHits > RegMax THEN "reject" ELSE "next"

RegIncrement(k) ==
    /\ regHits' = [regHits EXCEPT ![k] = RegTotalHits(k)]
    /\ regResetAt' = [regResetAt EXCEPT ![k] =
                         IF RegWindowOver(k) THEN now + RegWindow ELSE @]

RegMayArrive(k) == RegTotalHits(k) <= RegMax + MaxOver

TooManyRegistrations(r) ==
    Reply(r, 429, "", "Too many registration attempts, please try again later.")

-----------------------------------------------------------------------------
(* POST /register *)

RegisterInvalid(r, v) ==
    [Reply(r, 400, "Validation failed", "Please check your input and try again")
        EXCEPT !.details = v.errors]

RegisterWeak(r, pv) ==
    [Reply(r, 400, "Password validation failed",
           "Password does not meet security requirements")
        EXCEPT !.details = pv.errors]

AlreadyExistsConflict(r) ==
    Reply(r, 409, "Conflict", "An account with this email address already exists")

AlreadyExists(r) ==
    Reply(r, 400, "User already exists",
          "An account with this email address already exists")

Registered(r, user, tokens) ==
    [Reply(r, 201, "", "User registered successfully")
        EXCEPT !.user = user, !.pair = tokens]

Taken(email) == \E id \in UserIds : IsRow(users[id]) /\ users[id].email = email

RegisterArrive(p, k, e, pw, name) ==
    /\ p \in Procs /\ procs[p].pc = "idle"
    /\ RegMayArrive(k)
    /\ \E id \in UserIds : users[id] = Unused
    /\ RegIncrement(k)
    /\ LET r  == [Sent("register") EXCEPT !.admitted = RegTotalHits(k) <= RegMax]
           v  == validateInput(e, pw)
           pv == validatePassword(v.password)
       IN  IF registrationLimiter(RegTotalHits(k)) = "reject"
           THEN res' = TooManyRegistrations(r) /\ UNCHANGED procs
           ELSE IF ~v.isValid
           THEN res' = RegisterInvalid(r, v) /\ UNCHANGED procs
           ELSE IF ~pv.isValid
           THEN res' = RegisterWeak(r, pv) /\ UNCHANGED procs
           ELSE /\ Await(p, [Idle EXCEPT !.pc = "find", !.kind = "register",
                                !.admitted = r.admitted, !.email = v.email,
                                !.password = v.password, !.name = name])
                /\ res' = Quiet
    /\ UNCHANGED <<now, users, authStore, issued>>
    /\ UNCHANGED <<apiHits, client>>

RegisterFind(p) ==
    /\ procs[p].pc = "find" /\ procs[p].kind = "register"
    /\ LET existingUser == findUniqueByEmail(procs[p].email)
           r == [Carried(Sent("register"), p) EXCEPT !.lookups = 1]
       IN  IF existingUser # NoRow
           THEN res' = AlreadyExists([r EXCEPT !.taken = Taken(procs[p].email)]) /\ Finish(p)
           ELSE Await(p, [procs[p] EXCEPT !.pc = "hash"]) /\ res' = Quiet
    /\ UNCHANGED <<now, users, authStore, regStore, issued>>
    /\ UNCHANGED <<apiHits, client>>

RegisterHash(p) ==
    /\ procs[p].pc = "hash" /\ procs[p].kind = "register"
    /\ Await(p, [procs[p] EXCEPT !.pc = "create",
                    !.row = Row("new", procs[p].email,
                                IF procs[p].name = "" THEN "null" ELSE procs[p].name,
                                hashPassword(procs[p].password))])
    /\ res' = Quiet
    /\ UNCHANGED <<now, users, authStore, regStore, issued>>
    /\ UNCHANGED <<apiHits, client>>

RegisterCreateUnhandled(p) ==
    /\ procs[p].pc = "create" /\ procs[p].kind = "register"
    /\ findUniqueByEmail(procs[p].email) # NoRow \/ \E i \in UserIds : users[i] = Unused
    /\ LET r   == [Carried(Sent("register"), p)
                      EXCEPT !.lookups = 1, !.taken = Taken(procs[p].email)]
           id  == CHOOSE i \in UserIds : users[i] = Unused
           row == [procs[p].row EXCEPT !.id = id]
       IN  IF findUniqueByEmail(procs[p].email) # NoRow
           THEN res' = Reply(r, 500, "Database error", "Unable to create user account at this time")
                /\ UNCHANGED <<users, issued>>
           ELSE /\ users' = [users EXCEPT ![id] = row]
                /\ issued' = Handed(id)
                /\ res' = Registered(r, Select(row, PublicFields),
                                     generateTokenPair(id, now))
    /\ Finish(p)
    /\ UNCHANGED <<now, authStore, regStore>>
    /\ UNCHANGED <<apiHits, client>>

RegisterCreate(p) ==
    /\ procs[p].pc = "create" /\ procs[p].kind = "register"
    /\ findUniqueByEmail(procs[p].email) # NoRow \/ \E i \in UserIds : users[i] = Unused
    /\ LET r   == [Carried(Sent("register"), p)
                      EXCEPT !.lookups = 1, !.taken = Taken(procs[p].email)]
           id  == CHOOSE i \in UserIds : users[i] = Unused
           row == [procs[p].row EXCEPT !.id = id]
       IN  IF findUniqueByEmail(procs[p].email) # NoRow
           THEN /\ res' = trackAuthEvent(AlreadyExists(r), "body.email", {"error.message"})
                /\ UNCHANGED <<users, issued>>
           ELSE /\ users' = [users EXCEPT ![id] = row]
                /\ issued' = Handed(id)
                /\ res' = trackAuthEvent(Registered(r, Select(row, PublicFields),
                                                    generateTokenPair(id, now)),
                                         "user.id", {"user.email", "hasName"})
    /\ Finish(p)
    /\ UNCHANGED <<now, authStore, regStore>>
    /\ UNCHANGED <<apiHits, client>>

-----------------------------------------------------------------------------
(* PUT /change-password *)

CpMissing(r) ==
    Reply(r, 400, "Validation failed", "Current password and new password are required")

CpWeakUnauthorized(r, pv) ==
    Reply(r, 401, "Invalid password", "Current password is incorrect")

CpWeak(r, pv) ==
    [Reply(r, 400, "Password validation failed",
           "New password does not meet security requirements")
        EXCEPT !.details = pv.errors]

CpNoUser(r) == Reply(r, 404, "User not found", "User account no longer exists")

CpWrongPassword(r) == Reply(r, 401, "Invalid password", "Current password is incorrect")

CpFailed(r) ==
    Reply(r, 500, "Internal server error", "Unable to change password at this time")

CpOk(r) == Reply(r, 200, "", "Password changed successfully")

(* What the request asks for, against the stored row of its user. *)
Asked(r, row, currentPassword, newPassword) ==
    [r EXCEPT !.current = IF ~IsRow(row) THEN "none"
                          ELSE IF row.password.pw = currentPassword THEN "right"
                          ELSE "wrong",
              !.same = currentPassword = newPassword,
              !.weak = ~validatePassword(newPassword).isValid]

ChangePasswordArrive(p, tok, currentPassword, newPassword) ==
    /\ p \in Procs /\ procs[p].pc = "idle"
    /\ LET r  == Asked(Met(Sent("changepw"), tok), findUniqueById(tok.sub),
                       currentPassword, newPassword)
           pv == validatePassword(newPassword)
       IN  IF ~auth(tok, now)
           THEN res' = Unauthorized(r) /\ UNCHANGED procs
           ELSE IF currentPassword = "" \/ newPassword = ""
           THEN res' = CpMissing(r) /\ UNCHANGED procs
           ELSE IF ~pv.isValid
           THEN res' = CpWeak(r, pv) /\ UNCHANGED procs
           ELSE /\ Await(p, [Idle EXCEPT !.pc = "find", !.kind = "changepw",
                                !.token = tok, !.password = currentPassword,
                                !.newPassword = newPassword])
                /\ res' = Quiet
    /\ UNCHANGED <<now, users, authStore, regStore, issued>>
    /\ UNCHANGED <<apiHits, client>>

ChangePasswordFind(p) ==
    /\ procs[p].pc = "find" /\ procs[p].kind = "changepw"
    /\ LET user == findUniqueById(procs[p].token.sub)
           r == [Sent("changepw") EXCEPT !.lookups = 1]
       IN  IF user = NoRow
           THEN res' = CpNoUser(r) /\ Finish(p)
           ELSE Await(p, [procs[p] EXCEPT !.pc = "compare", !.row = user])
                /\ res' = Quiet
    /\ UNCHANGED <<now, users, authStore, regStore, issued>>
    /\ UNCHANGED <<apiHits, client>>

ChangePasswordCompare(p) ==
    /\ procs[p].pc = "compare" /\ procs[p].kind = "changepw"
    /\ LET r == Asked([Sent("changepw") EXCEPT !.lookups = 1, !.compares = 1],
                      procs[p].row, procs[p].password, procs[p].newPassword)
       IN  IF ~comparePassword(procs[p].password, procs[p].row.password)
           THEN res' = trackAuthEvent(CpWrongPassword(r), "req.user.id", {"reason"})
                /\ Finish(p)
           ELSE Await(p, [procs[p] EXCEPT !.pc = "hash"]) /\ res' = Quiet
    /\ UNCHANGED <<now, users, authStore, regStore, issued>>
    /\ UNCHANGED <<apiHits, client>>

ChangePasswordHash(p) ==
    /\ procs[p].pc = "hash" /\ procs[p].kind = "changepw"
    /\ Await(p, [procs[p] EXCEPT !.pc = "update",
                    !.row = [@ EXCEPT !.password = hashPassword(procs[p].newPassword)]])
    /\ res' = Quiet
    /\ UNCHANGED <<now, users, authStore, regStore, issued>>
    /\ UNCHANGED <<apiHits, client>>

ChangePasswordUpdate(p) ==
    /\ procs[p].pc = "update" /\ procs[p].kind = "changepw"
    /\ LET id == procs[p].row.id
           r  == Asked([Sent("changepw") EXCEPT !.lookups = 1, !.compares = 1],
                       users[id], procs[p].password, procs[p].newPassword)
       IN  IF ~IsRow(users[id])
           THEN res' = trackAuthEvent(CpFailed(r), "req.user.id", {"error.message"})
                /\ UNCHANGED users
           ELSE /\ users' = [users EXCEPT ![id].password = procs[p].row.password]
                /\ res' = trackAuthEvent(CpOk([r EXCEPT
                              !.oldOk = comparePassword(procs[p].password,
                                                        procs[p].row.password),
                              !.newOk = comparePassword(procs[p].newPassword,
                                                        procs[p].row.password)]),
                                         "req.user.id", {"user.email"})
    /\ Finish(p)
    /\ UNCHANGED <<now, authStore, regStore, issued>>
    /\ UNCHANGED <<apiHits, client>>

-----------------------------------------------------------------------------
(* POST /logout *)

LoggedOut(r) == Reply(r, 200, "", "Logout successful")

Logout(tok) ==
    /\ res' = IF ~auth(tok, now)
              THEN Unauthorized(Met(Sent("logout"), tok))
              ELSE LoggedOut(Met(Sent("logout"), tok))
    /\ UNCHANGED <<now, users, authStore, regStore, issued, procs>>
    /\ UNCHANGED <<apiHits, client>>

-----------------------------------------------------------------------------
(* frontend/src/lib/api.ts: the token entries of localStorage *)

MaxPair == 2

Inits == {"i1", "i2"}

Null == 0

(* The access and the refresh token of the n-th pair a response carries. *)
Pairs == 1..MaxPair

NoTokens == [authToken |-> Null, refreshToken |-> Null]

getToken(ls) == ls.authToken

setToken(ls, token) == [ls EXCEPT !.authToken = token]

setRefreshToken(ls, token) == [ls EXCEPT !.refreshToken = token]

removeTokenAccessOnly(ls) == [ls EXCEPT !.authToken = Null]

removeToken(ls) == [ls EXCEPT !.authToken = Null, !.refreshToken = Null]

(* The Authorization header of a request: the stored access token, if any. *)
createHeaders(ls, includeAuth) ==
    IF includeAuth /\ getToken(ls) # Null THEN getToken(ls) ELSE Null

(* login, register and refreshToken store both tokens of the response. *)
StoreTokens(ls, pair) == setRefreshToken(setToken(ls, pair), pair)

refreshTokenAccessOnly(ls, pair) == setToken(ls, pair)

(* authApi.refreshToken, once POST /auth/refresh has answered with a pair. *)
refreshToken(ls, pair) == StoreTokens(ls, pair)

-----------------------------------------------------------------------------
(* frontend/src/store/authStore.ts: the state of the store *)

InitialState ==
    [user |-> "none", isAuthenticated |-> FALSE, isLoading |-> FALSE, error |-> "none"]

Loading(st) == [st EXCEPT !.isLoading = TRUE, !.error = "none"]

SignedIn(user) ==
    [user |-> user, isAuthenticated |-> TRUE, isLoading |-> FALSE, error |-> "none"]

SignedOut(error) ==
    [user |-> "none", isAuthenticated |-> FALSE, isLoading |-> FALSE, error |-> error]

Settled(st, error) == [st EXCEPT !.isLoading = FALSE, !.error = error]

NoInit ==
    [pc |-> "idle", profiles |-> 0, refreshes |-> 0, bearer |-> Null, body |-> Null,
     pair |-> Null, alone |-> TRUE]

NoCall == [pc |-> "idle", kind |-> "none", bearer |-> Null]

Did(op, who) ==
    [op |-> op, who |-> who, ended |-> FALSE, threw |-> FALSE, sent |-> "none",
     bearer |-> Null, body |-> Null, profiles |-> 0, refreshes |-> 0,
     hadToken |-> FALSE, refreshFailed |-> FALSE, retried |-> "none", pair |-> Null,
     alone |-> TRUE, during |-> "none", formError |-> "", newPassword |-> ""]

Nothing == Did("none", "none")

(* A new call of initialize takes the first free slot: the slots are interchangeable. *)
FreeInit ==
    IF inits["i1"].pc = "idle" THEN "i1"
    ELSE IF inits["i2"].pc = "idle" THEN "i2" ELSE "none"

(* A step that writes localStorage is seen by every retry in flight. *)
Overwritten(who) ==
    [i \in Inits |-> IF i # who /\ inits[i].pc = "me2"
                     THEN [inits[i] EXCEPT !.alone = FALSE] ELSE inits[i]]

Counted(e, i) ==
    [e EXCEPT !.profiles = inits[i].profiles, !.refreshes = inits[i].refreshes,
              !.pair = inits[i].pair, !.alone = inits[i].alone, !.during = inits[i].pc,
              !.hadToken = TRUE]

-----------------------------------------------------------------------------
(* authStore.ts: initialize *)

ClearStoredAccessOnly(ls) == [ls EXCEPT !.authToken = Null]

ClearStored(ls) == [ls EXCEPT !.authToken = Null, !.refreshToken = Null]

(* The inner catch of initialize: the store is reset, both entries are removed. *)
GiveUp(i, e) ==
    /\ authState' = SignedOut("none")
    /\ localStorage' = ClearStored(localStorage)
    /\ inits' = [Overwritten(i) EXCEPT ![i] = NoInit]
    /\ ev' = [e EXCEPT !.ended = TRUE]

(* getCurrentUser, as initialize calls it: the store loads, GET /auth/me leaves. *)
FetchProfile(i, ls, e) ==
    /\ authState' = Loading(authState)
    /\ inits' = [(IF ls = localStorage THEN inits ELSE Overwritten(i)) EXCEPT ![i] =
                    [inits[i] EXCEPT !.pc = IF inits[i].pc = "idle" THEN "me1" ELSE "me2",
                                     !.profiles = @ + 1, !.pair = e.pair,
                                     !.bearer = createHeaders(ls, TRUE)]]
    /\ ev' = [e EXCEPT !.sent = "me", !.bearer = createHeaders(ls, TRUE),
                       !.profiles = inits[i].profiles + 1]

initialize(i) ==
    /\ i \in Inits /\ inits[i].pc = "idle"
    /\ IF getToken(localStorage) = Null
       THEN /\ authState' = SignedOut("none")
            /\ ev' = [Did("initialize", i) EXCEPT !.ended = TRUE]
            /\ UNCHANGED inits
       ELSE FetchProfile(i, localStorage, [Did("initialize", i) EXCEPT !.hadToken = TRUE])
    /\ UNCHANGED <<localStorage, call>>
    /\ UNCHANGED server

(* The first GET /auth/me returns; after a failure authApi.refreshToken runs. *)
InitializeProfile(i, ok) ==
    /\ inits[i].pc = "me1"
    /\ LET e == Counted(Did("initialize", i), i)
       IN  IF ok
           THEN /\ authState' = SignedIn("Ann")
                /\ inits' = [inits EXCEPT ![i] = NoInit]
                /\ ev' = [e EXCEPT !.ended = TRUE]
                /\ UNCHANGED localStorage
           ELSE IF localStorage.refreshToken = Null
           THEN GiveUp(i, [e EXCEPT !.refreshFailed = TRUE])
           ELSE /\ authState' = SignedOut("Failed to get user")
                /\ inits' = [inits EXCEPT ![i] =
                                [@ EXCEPT !.pc = "refresh", !.refreshes = @ + 1,
                                          !.body = localStorage.refreshToken]]
                /\ ev' = [e EXCEPT !.sent = "refresh", !.refreshes = inits[i].refreshes + 1,
                                   !.body = localStorage.refreshToken]
                /\ UNCHANGED localStorage
    /\ UNCHANGED call
    /\ UNCHANGED server

(* POST /auth/refresh returns: with a pair, which is stored before the retry, or not. *)
InitializeRefresh(i, pair) ==
    /\ inits[i].pc = "refresh"
    /\ LET e == Counted(Did("initialize", i), i)
       IN  IF pair = Null
           THEN GiveUp(i, [e EXCEPT !.refreshFailed = TRUE])
           ELSE /\ localStorage' = refreshToken(localStorage, pair)
                /\ FetchProfile(i, refreshToken(localStorage, pair), [e EXCEPT !.pair = pair])
    /\ UNCHANGED call
    /\ UNCHANGED server

InitializeRetryAgain(i, ok) ==
    /\ inits[i].pc = "me2"
    /\ LET e == Counted(Did("initialize", i), i)
       IN  IF ok
           THEN /\ authState' = SignedIn("Ann")
                /\ inits' = [inits EXCEPT ![i] = NoInit]
                /\ ev' = [e EXCEPT !.ended = TRUE, !.retried = "ok",
                                   !.bearer = inits[i].bearer]
           ELSE /\ authState' = SignedOut("Failed to get user")
                /\ inits' = [inits EXCEPT ![i] = [@ EXCEPT !.pc = "refresh"]]
                /\ ev' = [e EXCEPT !.sent = "refresh", !.retried = "failed"]
    /\ UNCHANGED <<localStorage, call>>
    /\ UNCHANGED server

(* The retried GET /auth/me returns. *)
InitializeRetry(i, ok) ==
    /\ inits[i].pc = "me2"
    /\ LET e == Counted(Did("initialize", i), i)
       IN  IF ok
           THEN /\ authState' = SignedIn("Ann")
                /\ inits' = [inits EXCEPT ![i] = NoInit]
                /\ ev' = [e EXCEPT !.ended = TRUE, !.retried = "ok",
                                   !.bearer = inits[i].bearer]
                /\ UNCHANGED localStorage
           ELSE GiveUp(i, [e EXCEPT !.retried = "failed"])
    /\ UNCHANGED call
    /\ UNCHANGED server

-----------------------------------------------------------------------------
(* authStore.ts: login, register, logout, getCurrentUser, changePassword, clearError *)

Calls == {"login", "register", "logout", "getCurrentUser", "changePassword"}

(* The call begins: the store loads and the request leaves with its header. *)
Begin(kind) ==
    /\ kind \in Calls /\ call.pc = "idle"
    /\ authState' = Loading(authState)
    /\ call' = [pc |-> "wait", kind |-> kind,
                bearer |-> createHeaders(localStorage, kind \notin {"login", "register"})]
    /\ ev' = [Did(kind, "call") EXCEPT
                 !.sent = kind, !.bearer = createHeaders(localStorage,
                                              kind \notin {"login", "register"})]
    /\ UNCHANGED <<localStorage, inits>>
    /\ UNCHANGED server

(* login and register: the tokens of the response are stored, or the call throws. *)
SignInReturn(kind, pair) ==
    /\ call.pc = "wait" /\ call.kind = kind /\ kind \in {"login", "register"}
    /\ IF pair = Null
       THEN /\ authState' = SignedOut(IF kind = "login" THEN "Login failed"
                                      ELSE "Registration failed")
            /\ ev' = [Did(kind, "call") EXCEPT !.ended = TRUE, !.threw = TRUE]
            /\ UNCHANGED <<localStorage, inits>>
       ELSE /\ localStorage' = StoreTokens(localStorage, pair)
            /\ authState' = SignedIn("Ann")
            /\ inits' = IF StoreTokens(localStorage, pair) = localStorage
                        THEN inits ELSE Overwritten("call")
            /\ ev' = [Did(kind, "call") EXCEPT !.ended = TRUE, !.pair = pair]
    /\ call' = NoCall
    /\ UNCHANGED server

LogoutReturnStrict(ok) ==
    /\ call.pc = "wait" /\ call.kind = "logout"
    /\ localStorage' = removeToken(localStorage)
    /\ authState' = IF ok THEN SignedOut("none") ELSE Settled(authState, "Logout failed")
    /\ inits' = IF removeToken(localStorage) = localStorage
                THEN inits ELSE Overwritten("call")
    /\ ev' = [Did("logout", "call") EXCEPT !.ended = TRUE, !.bearer = call.bearer,
                                          !.threw = ~ok,
                                          !.retried = IF ok THEN "ok" ELSE "failed"]
    /\ call' = NoCall
    /\ UNCHANGED server

(* logout: whatever POST /auth/logout answers, both entries are removed. *)
LogoutReturn(ok) ==
    /\ call.pc = "wait" /\ call.kind = "logout"
    /\ localStorage' = removeToken(localStorage)
    /\ authState' = SignedOut("none")
    /\ inits' = IF removeToken(localStorage) = localStorage
                THEN inits ELSE Overwritten("call")
    /\ ev' = [Did("logout", "call") EXCEPT !.ended = TRUE, !.bearer = call.bearer,
                                          !.retried = IF ok THEN "ok" ELSE "failed"]
    /\ call' = NoCall
    /\ UNCHANGED server

(* getCurrentUser: GET /auth/me succeeds only for a request that carried a token. *)
GetCurrentUserReturn(ok) ==
    /\ call.pc = "wait" /\ call.kind = "getCurrentUser"
    /\ ok => call.bearer # Null
    /\ authState' = IF ok THEN SignedIn("Ann") ELSE SignedOut("Failed to get user")
    /\ ev' = [Did("getCurrentUser", "call") EXCEPT !.ended = TRUE, !.threw = ~ok]
    /\ call' = NoCall
    /\ UNCHANGED <<localStorage, inits>>
    /\ UNCHANGED server

ChangePasswordReturn(ok) ==
    /\ call.pc = "wait" /\ call.kind = "changePassword"
    /\ authState' = Settled(authState, IF ok THEN "none" ELSE "Failed to change password")
    /\ ev' = [Did("changePassword", "call") EXCEPT !.ended = TRUE, !.threw = ~ok]
    /\ call' = NoCall
    /\ UNCHANGED <<localStorage, inits>>
    /\ UNCHANGED server

clearError ==
    /\ authState.error # "none"
    /\ authState' = [authState EXCEPT !.error = "none"]
    /\ ev' = [Did("clearError", "call") EXCEPT !.ended = TRUE]
    /\ UNCHANGED <<localStorage, inits, call>>
    /\ UNCHANGED server

-----------------------------------------------------------------------------
(* ChangePasswordModal: the form in front of changePassword *)

commonPasswords ==
    {"password", "123456", "password123", "admin", "qwerty",
     "letmein", "welcome", "monkey", "1234567890", "abc123",
     "Password123!", "Admin123!", "Welcome123!"}

(* The message validateForm sets, "" when it returns true. *)
validateForm(formData) ==
    LET s == Shape(formData.newPassword)
    IN  IF "" \in {formData.currentPassword, formData.newPassword, formData.confirmPassword}
        THEN "All fields are required"
        ELSE IF ~s.long THEN "New password must be at least 8 characters long"
        ELSE IF formData.newPassword # formData.confirmPassword
        THEN "New passwords do not match"
        ELSE IF formData.currentPassword = formData.newPassword
        THEN "New password must be different from current password"
        ELSE IF ~s.upper THEN "Password must contain at least one uppercase letter"
        ELSE IF ~s.lower THEN "Password must contain at least one lowercase letter"
        ELSE IF ~s.digit THEN "Password must contain at least one number"
        ELSE IF ~s.symbol THEN "Password must contain at least one special character"
        ELSE IF formData.newPassword \in commonPasswords \/ s.folded \in commonPasswords
        THEN "Password is too common, please choose a stronger password"
        ELSE ""

(* What is typed into the form. *)
Forms ==
    {[currentPassword |-> c, newPassword |-> n, confirmPassword |-> k] :
        c \in {"", "Str0ng!Pass"},
        n \in {"", "weak", "password123", "PASSWORD123", "Str0ng!Pass", "N3w!Passw0rd",
               "Password123!", "pASSWORD123!"},
        k \in {"weak", "password123", "PASSWORD123", "Str0ng!Pass", "N3w!Passw0rd",
               "Password123!", "pASSWORD123!"}}

(* handleSubmit: only a form that validateForm passes reaches changePassword. *)
handleSubmit(formData) ==
    /\ call.pc = "idle"
    /\ IF validateForm(formData) # ""
       THEN /\ ev' = [Did("handleSubmit", "form") EXCEPT
                         !.ended = TRUE, !.formError = validateForm(formData),
                         !.newPassword = formData.newPassword]
            /\ UNCHANGED <<authState, call>>
       ELSE /\ authState' = Loading(authState)
            /\ call' = [pc |-> "wait", kind |-> "changePassword",
                        bearer |-> createHeaders(localStorage, TRUE)]
            /\ ev' = [Did("handleSubmit", "form") EXCEPT
                         !.sent = "changePassword", !.newPassword = formData.newPassword,
                         !.bearer = createHeaders(localStorage, TRUE)]
    /\ UNCHANGED <<localStorage, inits>>
    /\ UNCHANGED server

(* The page is loaded again: the store starts over, localStorage stays. *)
Reload ==
    /\ call.pc = "idle" /\ \A i \in Inits : inits[i].pc = "idle"
    /\ authState # InitialState
    /\ authState' = InitialState
    /\ ev' = Nothing
    /\ UNCHANGED <<localStorage, inits, call>>
    /\ UNCHANGED server

-----------------------------------------------------------------------------
(* The environment: the clock, and the owner of the record store *)

Tick ==
    /\ now < MaxTime
    /\ now' = now + 1
    /\ res' = Quiet
    /\ UNCHANGED <<users, authStore, regStore, issued, procs>>
    /\ UNCHANGED <<apiHits, client>>

DeleteUser(id) ==
    /\ IsRow(users[id])
    /\ users' = [users EXCEPT ![id] = Deleted]
    /\ res' = Quiet
    /\ UNCHANGED <<now, authStore, regStore, issued, procs>>
    /\ UNCHANGED <<apiHits, client>>

-----------------------------------------------------------------------------

Init ==
    /\ now = 0
    /\ users = [id \in UserIds |->
                   IF id = "u1" THEN Row(id, "a@x.io", "Ann", bcrypt("Str0ng!Pass", 0))
                   ELSE Unused]
    /\ hits = [k \in Keys |-> 0]
    /\ resetAt = [k \in Keys |-> 0]
    /\ regHits = [k \in Keys |-> 0]
    /\ regResetAt = [k \in Keys |-> 0]
    /\ issued = [u \in UserIds |-> [t \in Times |-> "no"]]
    /\ procs = [p \in Procs |-> Idle]
    /\ res = Quiet
    /\ reached = [k \in Keys |-> 0]
    /\ apiHits = [k \in UserIds \cup Keys |-> 0]
    /\ localStorage = NoTokens
    /\ authState = InitialState
    /\ inits = [i \in Inits |-> NoInit]
    /\ call = NoCall
    /\ ev = Nothing

Passwords == {"Str0ng!Pass", "Wr0ng!Pass", ""}

Unissued == {NoToken, Garbage, Forged}

Clock == Tick \/ \E id \in UserIds : DeleteUser(id)

(* Logins of every shape, next to refreshes that share their counter. *)
NextLogin ==
    \/ \E k \in Keys, e \in RawEmails, pw \in Passwords : LoginArrive(FreeSlot, k, e, pw)
    \/ \E p \in Procs : LoginFind(p)
    \/ \E p \in Procs : LoginCompare(p)
    \/ \E k \in Keys, tok \in Unissued : RefreshArrive(FreeSlot, k, tok)
    \/ Clock

SpecLogin == Init /\ [][NextLogin]_vars

(* Every use of a token by a client that has signed in, one request at a time. *)
Next ==
    \/ \E k \in Keys : LoginArrive("p1", k, "a@x.io", "Str0ng!Pass")
    \/ LoginFind("p1")
    \/ LoginCompare("p1")
    \/ \E k \in Keys : \E tok \in Presentable : RefreshArrive("p1", k, tok)
    \/ RefreshFind("p1")
    \/ \E tok \in Presentable : MeArrive("p1", tok)
    \/ MeFind("p1")
    \/ Clock

Spec == Init /\ [][Next]_vars

(* Refreshes racing each other. *)
NextRace ==
    \/ \E k \in Keys : LoginArrive("p1", k, "a@x.io", "Str0ng!Pass")
    \/ LoginFind("p1")
    \/ LoginCompare("p1")
    \/ \E k \in Keys : \E tok \in IssuedTokens : RefreshArrive(FreeSlot, k, tok)
    \/ \E p \in Procs : RefreshFind(p)
    \/ Clock

SpecRace == Init /\ [][NextRace]_vars

Registrations ==
    {<<"b@x.io", "Str0ng!Pass", "Bob">>, <<" A@X.IO", "Str0ng!Pass", "">>,
     <<"nope", "Str0ng!Pass", "">>, <<"b@x.io", "weak", "">>,
     <<"b@x.io", "password123", "">>}

PasswordChanges ==
    {<<"Str0ng!Pass", "N3w!Passw0rd">>, <<"Wr0ng!Pass", "N3w!Passw0rd">>,
     <<"Str0ng!Pass", "weak">>, <<"", "N3w!Passw0rd">>}

Logins == {<<"a@x.io", "Str0ng!Pass">>, <<"a@x.io", "N3w!Passw0rd">>, <<"b@x.io", "Str0ng!Pass">>}

Held == IssuedTokens \cup {Garbage}

(* One client at a time over the whole interface, within one tick. *)
NextAccounts ==
    \/ \E k \in Keys, in \in Registrations : RegisterArrive("p1", k, in[1], in[2], in[3])
    \/ RegisterFind("p1")
    \/ RegisterHash("p1")
    \/ RegisterCreate("p1")
    \/ \E k \in Keys, in \in Logins : LoginArrive("p1", k, in[1], in[2])
    \/ LoginFind("p1")
    \/ LoginCompare("p1")
    \/ \E k \in Keys : \E tok \in Held : RefreshArrive("p1", k, tok)
    \/ RefreshFind("p1")
    \/ \E tok \in Held : MeArrive("p1", tok)
    \/ MeFind("p1")
    \/ \E tok \in Held, in \in PasswordChanges :
            ChangePasswordArrive("p1", tok, in[1], in[2])
    \/ ChangePasswordFind("p1")
    \/ ChangePasswordCompare("p1")
    \/ ChangePasswordHash("p1")
    \/ ChangePasswordUpdate("p1")
    \/ \E tok \in Held : Logout(tok)
    \/ \E id \in UserIds : DeleteUser(id)

SpecAccounts == Init /\ [][NextAccounts]_vars

Changes ==
    {<<"Str0ng!Pass", "N3w!Passw0rd">>, <<"Wr0ng!Pass", "N3w!Passw0rd">>,
     <<"Str0ng!Pass", "Str0ng!Pass">>, <<"N3w!Passw0rd", "Str0ng!Pass">>,
     <<"Str0ng!Pass", "weak">>, <<"Wr0ng!Pass", "weak">>, <<"Wr0ng!Pass", "password123">>,
     <<"", "N3w!Passw0rd">>}

(* A signed-in user changing the password, at the server and in the store. *)
NextPassword ==
    \/ \E k \in Keys, pw \in {"Str0ng!Pass", "N3w!Passw0rd"} :
          LoginArrive("p1", k, "a@x.io", pw)
    \/ LoginFind("p1")
    \/ LoginCompare("p1")
    \/ \E tok \in Held, in \in Changes :
          ChangePasswordArrive("p1", tok, in[1], in[2])
    \/ ChangePasswordFind("p1")
    \/ ChangePasswordCompare("p1")
    \/ ChangePasswordHash("p1")
    \/ ChangePasswordUpdate("p1")
    \/ \E tok \in Held : MeArrive("p1", tok)
    \/ MeFind("p1")
    \/ \E id \in UserIds : DeleteUser(id)
    \/ \E kind \in {"login", "changePassword"} : Begin(kind)
    \/ \E pair \in {Null} \cup Pairs : SignInReturn("login", pair)
    \/ \E ok \in BOOLEAN : ChangePasswordReturn(ok)

SpecPassword == Init /\ [][NextPassword]_vars

(* The three limited routes of one address, one request at a time. *)
NextLimiters ==
    \/ \E k \in Keys, e \in {"a@x.io", "nope"} : LoginArrive("p1", k, e, "Str0ng!Pass")
    \/ LoginFind("p1")
    \/ LoginCompare("p1")
    \/ \E k \in Keys, tok \in Unissued : RefreshArrive("p1", k, tok)
    \/ \E k \in Keys, in \in Registrations : RegisterArrive("p1", k, in[1], in[2], in[3])
    \/ RegisterFind("p1")
    \/ RegisterHash("p1")
    \/ RegisterCreate("p1")

SpecLimiters == Init /\ [][NextLimiters]_vars

(* Requests to the general endpoints, with and without a user, next to logins. *)
NextApi ==
    \/ \E user \in UserIds \cup {"none"}, ip \in Keys : ApiArrive(user, ip)
    \/ \E k \in Keys, e \in {"a@x.io", "nope"} : LoginArrive("p1", k, e, "Str0ng!Pass")
    \/ LoginFind("p1")
    \/ LoginCompare("p1")

SpecApi == Init /\ [][NextApi]_vars

(* The record-store or hashing call a handler awaits never settles: the     *)
(* handler sets no timer, so nothing resumes it.                            *)
Hang(p) ==
    /\ procs[p].pc \notin {"idle", "hung"}
    /\ procs' = [procs EXCEPT ![p].pc = "hung"]
    /\ res' = Quiet
    /\ UNCHANGED <<now, users, authStore, regStore, issued>>
    /\ UNCHANGED <<apiHits, client>>

(* Requests whose awaited calls either settle, and then the handler goes on, *)
(* or never do.                                                              *)
NextHang ==
    \/ \E k \in Keys, in \in Logins : LoginArrive("p1", k, in[1], in[2])
    \/ LoginFind("p1")
    \/ LoginCompare("p1")
    \/ \E k \in Keys, in \in Registrations : RegisterArrive("p1", k, in[1], in[2], in[3])
    \/ RegisterFind("p1")
    \/ RegisterHash("p1")
    \/ RegisterCreate("p1")
    \/ \E k \in Keys, tok \in Held : RefreshArrive("p1", k, tok)
    \/ RefreshFind("p1")
    \/ \E tok \in Held, in \in PasswordChanges : ChangePasswordArrive("p1", tok, in[1], in[2])
    \/ ChangePasswordFind("p1")
    \/ ChangePasswordCompare("p1")
    \/ ChangePasswordHash("p1")
    \/ ChangePasswordUpdate("p1")
    \/ Hang("p1")

SpecHang ==
    /\ Init /\ [][NextHang]_vars
    /\ WF_vars(LoginFind("p1")) /\ WF_vars(LoginCompare("p1"))
    /\ WF_vars(RegisterFind("p1")) /\ WF_vars(RegisterHash("p1"))
    /\ WF_vars(RegisterCreate("p1")) /\ WF_vars(RefreshFind("p1"))
    /\ WF_vars(ChangePasswordFind("p1")) /\ WF_vars(ChangePasswordCompare("p1"))
    /\ WF_vars(ChangePasswordHash("p1")) /\ WF_vars(ChangePasswordUpdate("p1"))

(* What the handlers and the error middleware write to the log. *)
NextLogs ==
    \/ \E k \in Keys, in \in Logins : LoginArrive("p1", k, in[1], in[2])
    \/ LoginFind("p1")
    \/ LoginCompare("p1")
    \/ \E k \in Keys, in \in Registrations : RegisterArrive("p1", k, in[1], in[2], in[3])
    \/ RegisterFind("p1")
    \/ RegisterHash("p1")
    \/ RegisterCreate("p1")
    \/ \E tok \in Held, in \in PasswordChanges : ChangePasswordArrive("p1", tok, in[1], in[2])
    \/ ChangePasswordFind("p1")
    \/ ChangePasswordCompare("p1")
    \/ ChangePasswordHash("p1")
    \/ ChangePasswordUpdate("p1")
    \/ \E kind \in {"login", "register", "refresh", "changepw"} : errorLogger(kind)

SpecLogs == Init /\ [][NextLogs]_vars

CaseVariants == {" A@X.IO", " B@X.IO"}

(* Registrations racing each other for the same email, in either letter case. *)
NextRegister ==
    \/ \E k \in Keys, in \in Registrations \cup {<<" B@X.IO", "Str0ng!Pass", "">>} :
          RegisterArrive(FreeSlot, k, in[1], in[2], in[3])
    \/ \E k \in Keys, e \in CaseVariants : LoginArrive(FreeSlot, k, e, "Str0ng!Pass")
    \/ \E p \in Procs : LoginFind(p)
    \/ \E p \in Procs : LoginCompare(p)
    \/ \E p \in Procs : RegisterFind(p)
    \/ \E p \in Procs : RegisterHash(p)
    \/ \E p \in Procs : RegisterCreate(p)
    \/ \E id \in UserIds : DeleteUser(id)

SpecRegister == Init /\ [][NextRegister]_vars

(* Sessions signing in and out, in the browser and at the server. *)
NextLogout ==
    \/ \E k \in Keys : LoginArrive("p1", k, "a@x.io", "Str0ng!Pass")
    \/ LoginFind("p1")
    \/ LoginCompare("p1")
    \/ \E tok \in Held \cup {NoToken} : Logout(tok)
    \/ \E tok \in Held : MeArrive("p1", tok)
    \/ MeFind("p1")
    \/ Tick
    \/ \E kind \in {"login", "logout"} : Begin(kind)
    \/ \E pair \in {Null, 1} : SignInReturn("login", pair)
    \/ \E ok \in BOOLEAN : LogoutReturn(ok)

SpecLogout == Init /\ [][NextLogout]_vars

(* The browser: overlapping calls of initialize next to one other call of the store. *)
NextClient ==
    \/ initialize(FreeInit)
    \/ \E i \in Inits, ok \in BOOLEAN : InitializeProfile(i, ok)
    \/ \E i \in Inits, pair \in {Null} \cup Pairs : InitializeRefresh(i, pair)
    \/ \E i \in Inits, ok \in BOOLEAN : InitializeRetry(i, ok)
    \/ \E kind \in Calls : Begin(kind)
    \/ \E kind \in Calls, pair \in {Null} \cup Pairs : SignInReturn(kind, pair)
    \/ \E ok \in BOOLEAN : LogoutReturn(ok)
    \/ \E ok \in BOOLEAN : GetCurrentUserReturn(ok)
    \/ \E ok \in BOOLEAN : ChangePasswordReturn(ok)
    \/ clearError
    \/ Reload

SpecClient == Init /\ [][NextClient]_vars

(* The form of the password change, next to a login and a logout. *)
NextForm ==
    \/ \E formData \in Forms : handleSubmit(formData)
    \/ \E ok \in BOOLEAN : ChangePasswordReturn(ok)
    \/ \E kind \in {"login", "logout"} : Begin(kind)
    \/ \E pair \in {Null} \cup Pairs : SignInReturn("login", pair)
    \/ \E ok \in BOOLEAN : LogoutReturn(ok)
    \/ clearError

SpecForm == Init /\ [][NextForm]_vars

(* Overlapping calls of initialize next to a login and a logout. *)
NextBootstrap ==
    \/ initialize(FreeInit)
    \/ \E i \in Inits, ok \in BOOLEAN : InitializeProfile(i, ok)
    \/ \E i \in Inits, pair \in {Null} \cup Pairs : InitializeRefresh(i, pair)
    \/ \E i \in Inits, ok \in BOOLEAN : InitializeRetry(i, ok)
    \/ \E kind \in {"login", "logout"} : Begin(kind)
    \/ \E pair \in {Null} \cup Pairs : SignInReturn("login", pair)
    \/ \E ok \in BOOLEAN : LogoutReturn(ok)

(* Every request the browser has sent is answered or fails in the end. *)
SpecClientFair ==
    /\ Init /\ [][NextBootstrap]_vars
    /\ \A i \in Inits :
          /\ WF_vars(\E ok \in BOOLEAN : InitializeProfile(i, ok))
          /\ WF_vars(\E pair \in {Null} \cup Pairs : InitializeRefresh(i, pair))
          /\ WF_vars(\E ok \in BOOLEAN : InitializeRetry(i, ok))

-----------------------------------------------------------------------------
(* C1: for one key and one window of authLimiter at most AuthMax (5)       *)
(* requests get past the limiter to a handler, however the requests        *)
(* interleave; a login counted among the first five that fails on its      *)
(* credentials returns 401 Invalid credentials, and every login counted    *)
(* after the fifth returns 429, whatever its credentials.                  *)
C1_LoginThrottle ==
    /\ \A k \in Keys : reached[k] <= AuthMax
    /\ res.kind = "login" /\ ~res.admitted => res.status = 429 /\ res.pair = NoPair
    /\ res.kind = "login" /\ res.admitted =>
          /\ res.status \in {200, 400, 401}
          /\ res.status = 401 <=> res.creds \in {"nouser", "wrongpw"}
          /\ res.status = 401 => res.error = "Invalid credentials"

(* The sixth login of a window is turned away although its credentials are right. *)
C1_Witness ==
    /\ res.kind = "login" /\ res.status = 429 /\ res.good
    /\ reached["ip1"] = AuthMax /\ hits["ip1"] = AuthMax + 1

(* C2: a login that authLimiter has blocked is answered 429 before any     *)
(* lookup of the user and before any comparison of the password: no step   *)
(* of the login handler runs for it.                                       *)
C2_BlockedBeforeHandler ==
    /\ \A p \in Procs : procs[p].kind = "login" => procs[p].admitted
    /\ res.kind = "login" /\ ~res.admitted =>
          res.status = 429 /\ res.lookups = 0 /\ res.compares = 0

C2_Witness ==
    /\ res.kind = "login" /\ ~res.admitted /\ res.status = 429
    /\ res.lookups = 0 /\ res.compares = 0
    /\ \E p \in Procs : procs[p].kind = "login" /\ procs[p].pc = "compare"

(* C3: what the caller receives from Login when no user has the email is   *)
(* what it receives when the user exists and the password is wrong: the    *)
(* same status, error, message and body.                                   *)
C3_SameRejection ==
    /\ res.creds = "nouser" => Visible(res) = Visible(WrongPassword(Sent("login")))
    /\ res.creds = "wrongpw" => Visible(res) = Visible(NoSuchUser(Sent("login")))

(* An unknown email is turned away while a wrong password for a known one  *)
(* is about to be.                                                         *)
C3_Witness ==
    /\ res.kind = "login" /\ res.creds = "nouser" /\ res.status = 401
    /\ \E p \in Procs : /\ procs[p].kind = "login" /\ procs[p].pc = "compare"
                        /\ ~comparePassword(procs[p].password, procs[p].row.password)

(* C4: no response of register, login, me, refresh, change-password or     *)
(* logout, success or error, carries the password field of a user row.     *)
C4_NoHashInResponse == "password" \notin DOMAIN res.user

(* A login succeeds and returns the row of a user who has a stored hash. *)
C4_Witness ==
    /\ res.kind = "login" /\ res.status = 200
    /\ \E id \in UserIds : /\ IsRow(users[id])
                           /\ res.user = Select(users[id], PublicFields)
                           /\ users[id].password \in StoredHashes

(* C5: a refresh with a non-empty token that fails verification answers   *)
(* 401 Token expired when the token has expired and 401 Invalid token for  *)
(* every other failure (garbage, bad signature, wrong type); it never      *)
(* answers 500, and Token expired is never the answer to another failure.  *)
C5_RefreshFailures ==
    res.kind = "refresh" /\ res.admitted /\ res.lookups = 0 /\ res.tok # "empty" =>
        /\ res.status = 401 /\ res.pair = NoPair
        /\ res.error = IF res.expired THEN "Token expired" ELSE "Invalid token"

C5_Witness ==
    /\ res.kind = "refresh" /\ res.tok = "forged"
    /\ res.status = 401 /\ res.error = "Invalid token"

C7_TypeTag ==
    /\ res.kind = "refresh" /\ res.admitted /\ res.tok = "access" =>
          /\ res.status = 401 /\ res.pair = NoPair /\ res.lookups = 0
          /\ res.error = IF res.expired THEN "Token expired" ELSE "Invalid token"
    /\ \A p \in Procs : procs[p].kind = "refresh" => procs[p].token.typ = "refresh"
    /\ res.kind = "me" /\ res.tok = "refresh" => res.status = 401 /\ res.user = NoRow
    /\ \A p \in Procs : procs[p].kind = "me" => procs[p].token.typ = "access"

C7_Witness ==
    /\ res.kind = "refresh" /\ res.admitted /\ res.tok = "access" /\ ~res.expired
    /\ res.status = 401 /\ res.error = "Invalid token"

(* C7 as stated: the access token is always answered with Invalid token. *)
C7_Original ==
    /\ res.kind = "refresh" /\ res.admitted /\ res.tok = "access" =>
          res.status = 401 /\ res.error = "Invalid token" /\ res.pair = NoPair
    /\ res.kind = "me" /\ res.tok = "refresh" => res.status = 401

(* C8: a token issued at s with lifetime t is accepted by verification at  *)
(* every time before s+t and rejected as expired from s+t on; a token that *)
(* verification has rejected is rejected at every later time.              *)
C8_Rejected ==
    res.kind = "refresh" /\ res.admitted /\ res.tok \in TokenTypes /\ res.lookups = 0 =>
        /\ res.tok = "refresh" => res.expired
        /\ res.expired <=> res.error = "Token expired"

C8_Accepted ==
    \A p \in Procs :
        procs[p].pc = "idle" /\ procs'[p].kind \in {"refresh", "me"} =>
            now < procs'[p].token.exp

C8_Monotonic ==
    \A tok \in IssuedTokens : ~verifyToken(tok, now).ok => ~verifyToken(tok, now').ok

C8_TokenLifetime == []C8_Rejected /\ [][C8_Accepted /\ C8_Monotonic]_vars

(* A refresh token that was accepted before is turned away as expired. *)
C8_Witness ==
    /\ res.kind = "refresh" /\ res.tok = "refresh" /\ res.replay
    /\ res.expired /\ res.error = "Token expired"

(* C9 (amended): refresh keeps no record of used tokens: a refresh token   *)
(* that has been exchanged before is exchanged again whenever the request  *)
(* is admitted by authLimiter, the token is unexpired and its subject      *)
(* exists; no step of a refresh changes the users table, and the only      *)
(* state a refresh changes is the counter of authLimiter.                  *)
C9_Replay ==
    res.kind = "refresh" /\ res.replay /\ res.admitted /\ ~res.expired
        /\ res.subject = "present" =>
            res.status = 200 /\ res.pair # NoPair /\ res.lookups = 1

C9_NoRecord ==
    \/ res'.kind = "refresh"
    \/ \E p \in Procs : procs'[p].kind = "refresh" /\ procs'[p] # procs[p]
    => users' = users /\ regHits' = regHits /\ regResetAt' = regResetAt /\ now' = now

C9_Stateless == []C9_Replay /\ [][C9_NoRecord]_vars

C9_Witness ==
    /\ res.kind = "refresh" /\ res.replay /\ res.status = 200
    /\ res.pair # NoPair /\ hits["ip1"] >= 2

(* C9 as stated: the replay succeeds any number of times. *)
C9_Original ==
    res.kind = "refresh" /\ res.replay /\ ~res.expired /\ res.subject = "present" =>
        res.status = 200

C11_SingleFlight ==
    \A i, j \in Inits :
        i # j => ~(/\ inits[i].pc = "refresh" /\ inits[j].pc = "refresh"
                   /\ inits[i].body = inits[j].body)

(* Two calls of initialize await POST /auth/refresh with the same stored token. *)
C11_Witness ==
    /\ inits["i1"].pc = "refresh" /\ inits["i2"].pc = "refresh"
    /\ inits["i1"].body = inits["i2"].body /\ inits["i1"].body = localStorage.refreshToken
    /\ inits["i1"].body # Null

(* C12: when initialize found an access token, its profile request failed  *)
(* and its refresh failed for whatever reason (no stored refresh token,    *)
(* or the request failed), it ends with both entries removed and the store *)
(* signed out: user null, isAuthenticated false, isLoading false.          *)
C12_RefreshFailure ==
    ev.op = "initialize" /\ ev.refreshFailed =>
        /\ ev.ended /\ ev.hadToken /\ ev.profiles = 1
        /\ localStorage = NoTokens
        /\ authState.user = "none" /\ ~authState.isAuthenticated /\ ~authState.isLoading

(* The refresh request itself fails, while the other call is still waiting. *)
C12_Witness ==
    /\ ev.op = "initialize" /\ ev.refreshFailed /\ ev.during = "refresh"
    /\ ev.refreshes = 1 /\ localStorage = NoTokens
    /\ \E i \in Inits : inits[i].pc # "idle"

C14_Bounded ==
    /\ \A i \in Inits : inits[i].refreshes <= 1 /\ inits[i].profiles <= 2
    /\ ev.op = "initialize" =>
          /\ ev.refreshes <= 1 /\ ev.profiles <= 2
          /\ ~ev.hadToken =>
                /\ ev.ended /\ ev.sent = "none" /\ ev.profiles = 0 /\ ev.refreshes = 0
                /\ authState = SignedOut("none")
          /\ ev.ended =>
                /\ ~authState.isLoading
                /\ authState.isAuthenticated <=> authState.user # "none"
                /\ inits[ev.who].pc = "idle"

C14_Advance ==
    \A i \in Inits :
        <<inits[i].pc, inits'[i].pc>> \in
            {<<"idle", "idle">>, <<"idle", "me1">>, <<"me1", "me1">>, <<"me1", "idle">>,
             <<"me1", "refresh">>, <<"refresh", "refresh">>, <<"refresh", "idle">>,
             <<"refresh", "me2">>, <<"me2", "me2">>, <<"me2", "idle">>}

C14_Terminates ==
    /\ []C14_Bounded
    /\ [][C14_Advance]_vars
    /\ \A i \in Inits : (inits[i].pc # "idle") ~> (inits[i].pc = "idle")

(* A call ends after its two profile requests and its one refresh request. *)
C14_Witness ==
    /\ ev.op = "initialize" /\ ev.ended /\ ev.profiles = 2 /\ ev.refreshes = 1
    /\ ev.retried = "failed" /\ ~authState.isAuthenticated

(* C16 (amended): the stored tokens are removed, always both together, in  *)
(* three situations: when logout completes, whatever the server answered;  *)
(* when the refresh of initialize fails; and when the refresh of           *)
(* initialize succeeded and the retried profile request fails.  A failed   *)
(* login or register, getCurrentUser, changePassword and clearError leave  *)
(* the stored tokens as they are.                                          *)
C16_Changes ==
    /\ localStorage' # localStorage =>
          \/ /\ ev'.op \in {"login", "register"} /\ ~ev'.threw /\ ev'.pair # Null
             /\ localStorage' = StoreTokens(NoTokens, ev'.pair)
          \/ /\ ev'.op = "initialize" /\ ev'.during = "refresh" /\ ~ev'.refreshFailed
             /\ localStorage' = StoreTokens(NoTokens, ev'.pair)
          \/ /\ localStorage' = NoTokens
             /\ \/ ev'.op = "logout" /\ ev'.ended
                \/ ev'.op = "initialize" /\ ev'.ended
                      /\ (ev'.refreshFailed \/ ev'.retried = "failed")
    /\ ev'.op = "logout" /\ ev'.ended /\ ev' # ev =>
          localStorage' = NoTokens /\ authState' = SignedOut("none")
    /\ ev'.op = "initialize" /\ ev'.ended /\ ev' # ev
          /\ (ev'.refreshFailed \/ ev'.retried = "failed") => localStorage' = NoTokens
    /\ ev'.op \in {"getCurrentUser", "changePassword", "clearError"} \/ ev'.threw =>
          localStorage' = localStorage

C16_TokenRemoval == [][C16_Changes]_vars

(* The retry after a successful refresh fails and the new tokens are removed. *)
C16_Witness ==
    /\ ev.op = "initialize" /\ ev.ended /\ ev.retried = "failed" /\ ev.alone
    /\ ~ev.refreshFailed /\ ev.pair # Null /\ localStorage = NoTokens

(* C16 as stated: only logout and a failed refresh of initialize remove the tokens. *)
C16_Original ==
    [][localStorage' # localStorage /\ localStorage' = NoTokens =>
          \/ ev'.op = "logout" /\ ev'.ended
          \/ ev'.op = "initialize" /\ ev'.refreshFailed]_vars

(* C15 (amended): logout of the store never ends in an error, however      *)
(* often it is called and also when no token is stored any more: the store *)
(* ends signed out with error null and both entries removed whatever the   *)
(* server answered.  POST /logout answers 200 every time it carries an     *)
(* unexpired access token and 401 otherwise, and changes neither the users *)
(* table nor what any issued token verifies to, so the tokens of another   *)
(* session are accepted as before.                                         *)
C15_Store ==
    /\ ev.op = "logout" /\ ev.ended =>
          ~ev.threw /\ authState = SignedOut("none") /\ localStorage = NoTokens
    /\ res.kind = "logout" =>
          /\ res.status = IF res.tok = "access" /\ ~res.expired THEN 200 ELSE 401
          /\ res.status = 200 => res.error = ""

C15_Isolated ==
    res'.kind = "logout" =>
        /\ users' = users /\ now' = now /\ issued' = issued
        /\ hits' = hits /\ resetAt' = resetAt /\ procs' = procs
        /\ \A tok \in IssuedTokens :
              /\ verifyToken(tok, now').ok = verifyToken(tok, now).ok
              /\ findUniqueById(tok.sub)' = findUniqueById(tok.sub)

C15_Logout == []C15_Store /\ [][C15_Isolated]_vars

(* A logout with no token stored, answered with an error by the server. *)
C15_Witness ==
    /\ ev.op = "logout" /\ ev.ended /\ ev.bearer = Null /\ ev.retried = "failed"
    /\ authState = SignedOut("none") /\ localStorage = NoTokens
    /\ Cardinality(IssuedTokens) >= 4

(* C15 as stated: no logout has an error outcome. *)
C15_Original == res.kind = "logout" => res.status = 200

-----------------------------------------------------------------------------
(* Changing the password *)

(* C17: a change of password whose new password equals the current one is
   rejected, whoever sends it: no answer to such a request is a success. *)
C17_SameRejected ==
    res.kind = "changepw" /\ res.same => res.status # 200

C17_Witness ==
    /\ res.kind = "changepw" /\ res.same /\ res.status = 200
    /\ IsRow(users["u1"]) /\ users["u1"].password = bcrypt("Str0ng!Pass", 1)

(* A request the guard let in and that carries both passwords. *)
C18_Heard ==
    /\ res.kind = "changepw" /\ res.status # 0
    /\ res.error \notin {"Unauthorized", "Validation failed"}

(* C18: the handler checks the new password against the policy before it reads
   the user and compares the current password: a new password that breaks the
   policy is answered 400 'Password validation failed' whatever the current
   password is, without a lookup or a comparison; a wrong current password is
   answered 401 'Invalid password' when the new password meets the policy; and
   'Invalid password' is only ever the answer to a wrong current password. *)
C18_PolicyFirst ==
    C18_Heard =>
        /\ res.weak => /\ res.status = 400 /\ res.error = "Password validation failed"
                       /\ res.lookups = 0 /\ res.compares = 0
        /\ ~res.weak /\ res.compares = 1 /\ res.current = "wrong"
              => res.status = 401 /\ res.error = "Invalid password"
        /\ res.error = "Invalid password" => res.current = "wrong" /\ ~res.weak

C18_Witness ==
    /\ C18_Heard /\ res.weak /\ res.current = "wrong"
    /\ res.error = "Password validation failed"

(* C18 as stated: a wrong current password is answered 401 'Invalid password'
   for every new password, and 'Password validation failed' only goes to a
   caller whose current password was right. *)
C18_Original ==
    C18_Heard =>
        /\ res.current = "wrong" => res.status = 401 /\ res.error = "Invalid password"
        /\ res.error = "Password validation failed" => res.current = "right"

(* C19: after a successful change the new password signs in and the old one no
   longer does. *)
C19_OldPasswordDead ==
    res.kind = "changepw" /\ res.status = 200 => res.newOk /\ ~res.oldOk

C19_Witness ==
    /\ res.kind = "login" /\ res.status = 200 /\ res.pair # NoPair
    /\ IsRow(users["u1"]) /\ users["u1"].password = bcrypt("Str0ng!Pass", 1)

-----------------------------------------------------------------------------
(* Registrations that fail *)

(* C20: a registration that is not answered 201 hands out no tokens and no
   user, and its step leaves the users table and the issued tokens as they
   were. *)
C20_NoEffect ==
    res'.kind = "register" /\ res'.status # 201
        => /\ res'.pair = NoPair /\ res'.user = NoRow
           /\ users' = users /\ issued' = issued

(* C20: 'Password validation failed' lists the rules that failed and is given
   before any lookup; a registration for an email that a row holds, at the
   lookup or at the insert, is answered 400 'User already exists'. *)
C20_Answers ==
    res.kind = "register" =>
        /\ res.error = "Password validation failed"
              => res.status = 400 /\ res.details # {} /\ res.lookups = 0
        /\ res.lookups = 1
              => (res.taken <=> res.status = 400 /\ res.error = "User already exists")
        /\ res.status = 201 <=> res.pair # NoPair

C20_FailedRegister == []C20_Answers /\ [][C20_NoEffect]_vars

(* Of two registrations for one free email, the second to insert is refused. *)
C20_Witness ==
    /\ res.kind = "register" /\ res.error = "User already exists"
    /\ \E id \in UserIds : IsRow(users[id]) /\ users[id].email = "b@x.io"
    /\ regHits["ip1"] >= 2

-----------------------------------------------------------------------------
(* Emails *)

(* C21: no two rows of the users table hold emails that are equal once
   trimmed and lower-cased, and every stored email is in that form; a
   registration is never answered 500, so of the registrations racing for one
   email the losers are answered 'User already exists'; a login whose email is
   a letter-case variant passes the lookup exactly when a row holds the
   normalized email. *)
C21_Unique ==
    /\ \A a, b \in UserIds :
          IsRow(users[a]) /\ IsRow(users[b]) /\ a # b
              => trimToLowerCase(users[a].email) # trimToLowerCase(users[b].email)
    /\ \A a \in UserIds : IsRow(users[a]) => users[a].email \notin CaseVariants
    /\ res.kind = "register" => res.status \in {0, 201, 400, 429}

C21_LoginFinds ==
    \A p \in Procs :
        procs[p].kind = "login" /\ procs[p].pc = "find" /\ procs'[p].pc # "find"
            => (procs'[p].pc = "compare" <=> Taken(procs[p].email))

C21_NormalizedEmail == []C21_Unique /\ [][C21_LoginFinds]_vars

(* The loser of a race between two spellings of one email, and a login
   under the upper-case spelling that finds the winner's row. *)
C21_Witness ==
    /\ res.kind = "login" /\ res.status = 200 /\ res.user.email = "b@x.io"
    /\ regHits["ip1"] >= 2

-----------------------------------------------------------------------------
(* The windows of the limiters *)

(* C22: the count of a key is never negative; a request counted inside the
   window adds one and leaves the end of the window where it was, also when
   the key is already blocked; once the window is over the count is taken as
   zero, however many requests were turned away, so the next request of the
   key is counted as the first of a new window and is not turned away. *)
C22_Count ==
    \A k \in Keys :
        /\ hits[k] >= 0 /\ regHits[k] >= 0
        /\ WindowOver(k) => authLimiter(TotalHits(k)) = "next"

C22_Arrival ==
    \A k \in Keys :
        hits'[k] # hits[k] \/ resetAt'[k] # resetAt[k] =>
            IF WindowOver(k)
            THEN /\ hits'[k] = 1 /\ resetAt'[k] = now + AuthWindow
                 /\ res'.status # 429 /\ res'.admitted
            ELSE /\ hits'[k] = hits[k] + 1 /\ resetAt'[k] = resetAt[k]
                 /\ res'.status = 429 <=> hits[k] >= AuthMax

C22_WindowReset == []C22_Count /\ [][C22_Arrival]_vars

(* A blocked key whose window has run out. *)
C22_Witness ==
    /\ hits["ip1"] > AuthMax /\ reached["ip1"] = AuthMax
    /\ resetAt["ip1"] > 0 /\ WindowOver("ip1")

(* A request of this kind arrives in this step. *)
C23_Arrives(kind) ==
    \/ res'.kind = kind /\ res'.status # 0 /\ procs' = procs
    \/ procs["p1"].pc = "idle" /\ procs'["p1"].pc # "idle" /\ procs'["p1"].kind = kind

(* C23 (amended): for one key, login and refresh requests are counted by one
   counter, that of authLimiter: each of them adds one to it and none of them
   touches the counter of registrationLimiter; a registration adds one to the
   counter of registrationLimiter, which turns away after RegMax (3), and
   leaves the counter of authLimiter as it was. *)
C23_Counters ==
    \A k \in Keys :
        /\ C23_Arrives("login") \/ C23_Arrives("refresh")
              => /\ hits'[k] = TotalHits(k)
                 /\ regHits' = regHits /\ regResetAt' = regResetAt
        /\ C23_Arrives("register")
              => /\ regHits'[k] = RegTotalHits(k) /\ hits' = hits /\ resetAt' = resetAt
                 /\ res'.status = 429 <=> RegTotalHits(k) > RegMax
        /\ hits' # hits \/ resetAt' # resetAt
              => C23_Arrives("login") \/ C23_Arrives("refresh")
        /\ regHits' # regHits \/ regResetAt' # regResetAt => C23_Arrives("register")

C23_SharedCounter == [][C23_Counters]_vars

(* A login turned away after refreshes used the window up, next to a
   registration counted on its own. *)
C23_Witness ==
    /\ res.kind = "login" /\ res.status = 429 /\ reached["ip1"] = AuthMax
    /\ \A id \in UserIds : \A t \in Times : issued[id][t] = "no"
    /\ regHits["ip1"] = 1

(* C23 as stated: a refresh request leaves the allowance of logins as it was. *)
C23_Original ==
    [][\A k \in Keys : C23_Arrives("refresh") => hits'[k] = hits[k] /\ resetAt'[k] = resetAt[k]]_vars

(* C24: every request that passes a limiter is counted under one key, the
   user id when the request has a user and the address otherwise. *)
C24_CountedUnderOneKey ==
    res.kind = "api" =>
        IF res.subject # "none" THEN res.countedAs = res.subject
        ELSE res.countedAs \in Keys

(* A request without a user has passed apiLimiter and no counter moved. *)
C24_Witness ==
    /\ res.kind = "api" /\ res.subject = "none" /\ res.countedAs = "none"
    /\ apiHits["ip1"] = 0 /\ apiHits["u1"] = 1 /\ apiHits["u2"] = 1 /\ hits["ip1"] = 1

-----------------------------------------------------------------------------
(* The log *)

(* C25: nothing the backend writes to its log was read from a password or a
   token of the request. *)
C25_NoSecretLogged ==
    res.logged \cap {"body.password", "body.currentPassword", "body.newPassword",
                     "body.refreshToken", "headers.authorization"} = {}

(* The error middleware has logged the body of a login. *)
C25_Witness ==
    /\ res.kind = "login" /\ "body.password" \in res.logged /\ "error.stack" \in res.logged
    /\ \E id \in UserIds : \E t \in Times : issued[id][t] # "no"

-----------------------------------------------------------------------------
(* Slow calls *)

(* C26: every request that a handler has taken up is answered in the end,
   also when a record-store or hashing call it awaits does not settle. *)
C26_Answered == (procs["p1"].pc # "idle") ~> (procs["p1"].pc = "idle")

(* A change of password waits for a call that never settles. *)
C26_Witness ==
    /\ procs["p1"].pc = "hung" /\ procs["p1"].kind = "changepw"
    /\ \E id \in UserIds : IsRow(users[id])

-----------------------------------------------------------------------------
(* The browser: bootstrap, late responses, the store and localStorage *)

(* C27: while the only call of initialize waits for POST /auth/refresh after
   its profile fetch failed, and nothing else is in flight, the store shows
   no error and does not show signed out and at rest. *)
C27_Refreshing ==
    (/\ inits["i1"].pc = "refresh" /\ inits["i2"].pc = "idle" /\ call.pc = "idle")
        => /\ authState.error = "none"
           /\ ~(~authState.isAuthenticated /\ ~authState.isLoading)

(* The profile fetch of the only initialize has just failed; its refresh is
   on the way and the store already reads as signed out with an error. *)
C27_Witness ==
    /\ inits["i1"].pc = "refresh" /\ inits["i2"].pc = "idle" /\ call.pc = "idle"
    /\ ev.op = "initialize" /\ ev.sent = "refresh" /\ localStorage.refreshToken # Null
    /\ authState = SignedOut("Failed to get user")

(* C28: a response to a request that initialize sent before a logout
   completed, arriving right after that logout, writes nothing to
   localStorage and does not leave the store authenticated. *)
C28_LateResponse ==
    [][(/\ ev.op = "logout" /\ ev.ended
        /\ ev'.op = "initialize" /\ inits[ev'.who].pc # "idle")
          => /\ localStorage' = localStorage
             /\ ~authState'.isAuthenticated]_vars

(* A logout has completed and emptied localStorage while the refresh of an
   initialize is still on the way. *)
C28_Witness ==
    /\ ev.op = "logout" /\ ev.ended /\ localStorage = NoTokens
    /\ ~authState.isAuthenticated
    /\ \E i \in Inits : inits[i].pc = "refresh" /\ inits[i].body # Null

(* C29: a candidate that equals an entry of the form's list of common
   passwords when case is ignored is rejected by the form with a message
   and is not submitted to changePassword. *)
C29_FormDenylist ==
    (/\ ev.op = "handleSubmit"
     /\ \E d \in commonPasswords : Shape(d).folded = Shape(ev.newPassword).folded)
        => /\ ev.sent = "none"
           /\ ev.formError # ""

(* The form has sent a case variant of 'Password123!' to changePassword. *)
C29_Witness ==
    /\ ev.op = "handleSubmit" /\ ev.newPassword = "pASSWORD123!"
    /\ ev.sent = "changePassword" /\ call.kind = "changePassword" /\ authState.isLoading

(* C30: whenever no call of the store and no initialize is in flight, a
   store that reads authenticated has a user and localStorage holds an
   access token. *)
C30_AuthenticatedHasToken ==
    (call.pc = "idle" /\ \A i \in Inits : inits[i].pc = "idle")
        => (authState.isAuthenticated
              => getToken(localStorage) # Null /\ authState.user # "none")

(* At rest and authenticated after an initialize has ended, with an empty
   localStorage. *)
C30_Witness ==
    /\ call.pc = "idle" /\ \A i \in Inits : inits[i].pc = "idle"
    /\ authState.isAuthenticated /\ ev.op = "initialize" /\ ev.ended
    /\ localStorage = NoTokens

====
